---- MODULE Spec2Model ----
(***************************************************************************)
(* A model of flightaware/client.py: the FlightXML2 client binding.        *)
(*                                                                         *)
(* Python values are tagged records [t |-> type, v |-> payload] so that    *)
(* values of different Python types can be compared.  A dict is a function *)
(* from key strings to values, a list is a sequence of values, a naive     *)
(* datetime is its distance from 1970-01-01T00:00:00 as a timedelta holds  *)
(* it: days, seconds in 0..86399 and microseconds in 0..999999.  TLC's     *)
(* integers have 32 bits, so a Python int beyond them is kept as a sign    *)
(* and a count of days and seconds (PyLong).                               *)
(***************************************************************************)
EXTENDS Integers, Sequences, FiniteSets, TLC

VARIABLES
    auth,       \* self.auth: the HTTPBasicAuth(username, api_key) of the client
    headers,    \* self.headers
    tz,         \* the time zone (TZ) of the caller's environment
    ncalls,     \* number of client operations called so far
    invokes,    \* number of _request calls made so far
    posts,      \* number of requests.post calls made so far
    call,       \* the last operation called and its arguments
    request,    \* the request that operation handed to requests.post, if any
    response,   \* what the transport answered to it
    outcome,    \* how the last operation ended: a returned value or a raised error
    default_parameters, \* the dict object that is the default of search's parameters
    default_channels,   \* the list object that is the default of set_alert's channels
    threads     \* the _request calls that run in parallel threads, one record each

vars == <<auth, headers, tz, ncalls, invokes, posts, call, request, response, outcome,
          default_parameters, default_channels, threads>>

-----------------------------------------------------------------------------
(* Bounds *)

MaxCalls == 2
NumThreads == 2

-----------------------------------------------------------------------------
(* Python values *)

None == [t |-> "none", v |-> 0]
PyInt(n) == [t |-> "int", v |-> n]
PyStr(s) == [t |-> "str", v |-> s]
PyBool(b) == [t |-> "bool", v |-> b]
PyList(q) == [t |-> "list", v |-> q]
PyDict(f) == [t |-> "dict", v |-> f]
\* a dict where the order of iteration matters: the sequence of its items
OrderedDict(items) == [t |-> "odict", v |-> items]
\* an argument the caller left out, so that the parameter takes its default
Omitted == [t |-> "omitted", v |-> 0]
SecondsPerDay == 86400
\* a timedelta, normalised as Python keeps it
TimeDelta(days, seconds, microseconds) ==
    [days |-> days, seconds |-> seconds, microseconds |-> microseconds]
DateTimeAt(days, seconds, microseconds) ==
    [t |-> "datetime", v |-> TimeDelta(days, seconds, microseconds)]
\* the datetime s seconds (rounded down) and us microseconds from 1970-01-01
DateTime(s, us) == DateTimeAt(s \div SecondsPerDay, s % SecondsPerDay, us)
\* the int sign * (days * 86400 + seconds), where it does not fit a TLC integer
PyLong(sign, days, seconds) ==
    [t |-> "long", v |-> [sign |-> sign, days |-> days, seconds |-> seconds]]
Date(days) == [t |-> "date", v |-> days]

EmptyMap == [k \in {} |-> None]

\* the body of a response that is not JSON
NotJson == [t |-> "notjson", v |-> 0]
\* no value at all: the call raised, or no request was made
NoValue == [t |-> "novalue", v |-> 0]

Return(val) == [kind |-> "return", value |-> val, exc |-> "none"]
Raise(e) == [kind |-> "raise", value |-> NoValue, exc |-> e]

\* Python's truth value of val, as tested by "if val:"
Truthy(val) ==
    CASE val.t = "none" -> FALSE
      [] val.t = "int" -> val.v # 0
      [] val.t = "bool" -> val.v
      [] val.t = "str" -> val.v # ""
      [] val.t = "list" -> Len(val.v) > 0
      [] val.t = "dict" -> DOMAIN val.v # {}
      [] val.t = "odict" -> Len(val.v) > 0
      [] OTHER -> TRUE

-----------------------------------------------------------------------------
(* Module-level constants and functions *)

BASE_URL == "http://flightxml.flightaware.com/json/FlightXML2/"
MAX_RECORD_LENGTH == 15
EPOCH == DateTime(0, 0)
MicrosPerSecond == 1000000

\* a - b for two datetimes: a timedelta, normalised so that
\* 0 <= seconds < 86400 and 0 <= microseconds < 1000000
DateTimeSub(a, b) ==
    LET us == a.v.microseconds - b.v.microseconds
        s == a.v.seconds - b.v.seconds - (IF us < 0 THEN 1 ELSE 0)
        d == a.v.days - b.v.days - (IF s < 0 THEN 1 ELSE 0)
    IN  TimeDelta(d, s % SecondsPerDay, us % MicrosPerSecond)

\* abs(td), normalised
AbsDelta(td) ==
    IF td.days >= 0
    THEN td
    ELSE LET bu == IF td.microseconds > 0 THEN 1 ELSE 0
             bs == IF td.seconds + bu > 0 THEN 1 ELSE 0
         IN  TimeDelta(-td.days - bs,
                       (SecondsPerDay - td.seconds - bu) % SecondsPerDay,
                       (MicrosPerSecond - td.microseconds) % MicrosPerSecond)

\* the k with 2^k <= td < 2^(k+1) seconds, for a td that is not negative;
\* 33 stands for every k up to 33.  The timedeltas are 2^37, 2^36, 2^35 and
\* 2^34 seconds; no datetime is 2^38 seconds from EPOCH.
Binade(td) ==
    LET AtLeast(a, b) == a.days > b.days \/ (a.days = b.days /\ a.seconds >= b.seconds) IN
    IF AtLeast(td, TimeDelta(1590728, 54272, 0)) THEN 37
    ELSE IF AtLeast(td, TimeDelta(795364, 27136, 0)) THEN 36
    ELSE IF AtLeast(td, TimeDelta(397682, 13568, 0)) THEN 35
    ELSE IF AtLeast(td, TimeDelta(198841, 6784, 0)) THEN 34
    ELSE 33

\* td.total_seconds() is a double, the nearest one to the exact quotient.  A
\* double has 53 significant bits: in binade k two neighbours are 2^(k-52)
\* apart, so from 2^34 seconds on a value less than half that step below a
\* whole second is that whole second.
RoundsUp(td) ==
    /\ Binade(td) >= 34
    /\ td.microseconds > 0
    /\ MicrosPerSecond - td.microseconds <= MicrosPerSecond \div 2^(53 - Binade(td))

\* the Python int sign * (days * 86400 + seconds); 24854 is the largest
\* number of days whose seconds fit a TLC integer
PyIntOfSeconds(sign, days, seconds) ==
    IF days <= 24854
    THEN PyInt(sign * (days * SecondsPerDay + seconds))
    ELSE PyLong(sign, days, seconds)

\* int(td.total_seconds()): int() truncates the double toward zero
IntTotalSeconds(td) ==
    LET abs == AbsDelta(td)
        s == abs.seconds + (IF RoundsUp(abs) THEN 1 ELSE 0)
    IN  PyIntOfSeconds(IF td.days < 0 THEN -1 ELSE 1,
                       abs.days + s \div SecondsPerDay, s % SecondsPerDay)

to_unix_timestamp(val) ==
    IF Truthy(val)
    THEN IF val.t # "datetime"
         THEN Raise("ValueError")
         ELSE Return(IntTotalSeconds(DateTimeSub(val, EPOCH)))
    ELSE Return(None)

\* A time zone as a POSIX TZ value gives it: the seconds east of UTC of
\* standard time and of daylight time (the same where there is none), and the
\* rules Mm.w.d/time of the two changes: weekday d (0 is Sunday) of week w
\* (5 is the last) of month m, at time seconds of the local time before the
\* change.
Rule(m, w, d, time) == [m |-> m, w |-> w, d |-> d, time |-> time]
\* a zone without daylight time: its rules are never looked at
FixedZone(offset) ==
    [std |-> offset, dst |-> offset, start |-> Rule(1, 1, 0, 0), end |-> Rule(1, 1, 0, 0)]
\* TZ=EST5EDT,M3.2.0,M11.1.0
EST5EDT ==
    [std |-> -18000, dst |-> -14400, start |-> Rule(3, 2, 0, 7200), end |-> Rule(11, 1, 0, 7200)]

\* the calendar: day numbers count from 1970-01-01, which is day 0; 477 leap
\* days lie between the years 1 and 1970
JanFirst(y) ==
    365 * (y - 1970) + (y - 1) \div 4 - (y - 1) \div 100 + (y - 1) \div 400 - 477

DaysInMonth(y, m) ==
    IF m = 2 THEN (IF y % 4 = 0 /\ (y % 100 # 0 \/ y % 400 = 0) THEN 29 ELSE 28)
    ELSE IF m \in {4, 6, 9, 11} THEN 30
    ELSE 31

\* the day number of the date y-m-d
DaysFromCivil(y, m, d) ==
    JanFirst(y) + <<0, 31, 59, 90, 120, 151, 181, 212, 243, 273, 304, 334>>[m]
    + (IF m > 2 /\ DaysInMonth(y, 2) = 29 THEN 1 ELSE 0) + d - 1

\* the year of the date with day number days
YearOfDays(days) ==
    CHOOSE y \in (1969 + (IF days < 0 THEN days \div 365 ELSE days \div 366))
                 ..(1971 + (IF days < 0 THEN days \div 366 ELSE days \div 365)) :
        JanFirst(y) <= days /\ days < JanFirst(y + 1)

\* datetime.MINYEAR and datetime.MAXYEAR as day numbers: 0001-01-01 and 9999-12-31
MinDays == -719162
MaxDays == 2932896

\* an instant: days and seconds (0..86399) from 1970-01-01T00:00:00 UTC
Instant(days, seconds) ==
    [days |-> days + seconds \div SecondsPerDay, seconds |-> seconds % SecondsPerDay]

\* the instant of the change rule names in year y, where offset is the one
\* in force before the change.  Day 0 is a Thursday and weekday 0 a Sunday.
Change(rule, y, offset) ==
    LET OnWeekday(first) == first + ((rule.d - (first + 4)) % 7) + 7 * (rule.w - 1)
        InMonth(day, next) == IF day >= next THEN day - 7 ELSE day
    IN  Instant(InMonth(OnWeekday(DaysFromCivil(y, rule.m, 1)),
                        DaysFromCivil(y, rule.m, 1) + DaysInMonth(y, rule.m)),
                rule.time - offset)

\* the seconds east of UTC that zone keeps at instant t, as localtime() of
\* the C library works it out: from the two changes of the year of t, and
\* from those of 1970 for every earlier year
UtcOffset(zone, t) ==
    IF zone.dst = zone.std
    THEN zone.std
    ELSE LET Before(a, b) == a.days < b.days \/ (a.days = b.days /\ a.seconds < b.seconds)
             Between(start, end) ==
                 IF Before(end, start)
                 THEN Before(t, end) \/ ~Before(t, start)
                 ELSE ~Before(t, start) /\ Before(t, end)
             IsDst(y) ==
                 Between(Change(zone.start, y, zone.std), Change(zone.end, y, zone.dst))
             RulesYear(year) == IF year < 1970 THEN 1970 ELSE year
         IN  IF IsDst(RulesYear(YearOfDays(t.days))) THEN zone.dst ELSE zone.std

\* the local date and time of instant t in zone, as an instant of its own
LocalTime(zone, t) == Instant(t.days, t.seconds + UtcOffset(zone, t))

InYears(t) == MinDays <= t.days /\ t.days <= MaxDays

\* datetime.datetime.fromtimestamp(val) in zone: the naive local time of the
\* instant.  It raises ValueError when that local time is outside the years
\* 1 to 9999, and also when the local time of the instant one day earlier
\* is: the library looks at it to tell a repeated hour.
fromtimestamp(val, zone) ==
    LET Shown(local, probe) ==
            IF InYears(local) /\ InYears(probe)
            THEN Return(DateTimeAt(local.days, local.seconds, 0))
            ELSE Raise("ValueError")
        At(t) ==
            IF t.days < MinDays - 2 \/ t.days > MaxDays + 2
            THEN Raise("ValueError")
            ELSE Shown(LocalTime(zone, t), LocalTime(zone, Instant(t.days - 1, t.seconds)))
    IN  CASE val.t = "int" -> At(Instant(0, val.v))
          [] val.t = "bool" -> At(Instant(0, IF val.v THEN 1 ELSE 0))
          [] val.t = "long" -> At(Instant(val.v.sign * val.v.days, val.v.sign * val.v.seconds))
          [] OTHER -> Raise("TypeError")

\* the time of the wire integer shown in UTC whatever the zone
from_unix_timestamp_Utc(val) == fromtimestamp(val, FixedZone(0))

\* line 27: the naive local time of the instant in the caller's zone
from_unix_timestamp(val) == fromtimestamp(val, tz)

TrafficFilter_GA == PyStr("ga")
TrafficFilter_AIRLINE == PyStr("airline")
TrafficFilter_ALL == None

-----------------------------------------------------------------------------
(* The transport: requests.post answers with a failure (status 0), or with  *)
(* a response that has a status and a body.                                 *)

TransportFailure == [status |-> 0, body |-> NotJson]
\* the operation made no request, so there is nothing the transport answered
NoRequest == [url |-> "", data |-> None, auth |-> [username |-> "", password |-> ""],
              headers |-> EmptyMap]
NoResponse == [status |-> -1, body |-> NoValue]
HttpResponse(status, body) == [status |-> status, body |-> body]

-----------------------------------------------------------------------------
(* Client._request *)

\* part occurs in whole
Substring(part, whole) ==
    \E i \in 1..(Len(whole) - Len(part) + 1) : SubSeq(whole, i, i + Len(part) - 1) = part

\* "key in result" for a dict, a list or a str; for a str it is a substring
\* test
KeyIn(key, result) ==
    CASE result.t = "dict" -> key \in DOMAIN result.v
      [] result.t = "list" -> \E i \in 1..Len(result.v) : result.v[i] = PyStr(key)
      [] result.t = "str" -> Substring(key, result.v)
      [] OTHER -> FALSE

\* rule 2 tried on the original object as well
Unwrap_DataAnywhere(method, result) ==
    LET key == method \o "Result"
        final == IF result.t = "dict" /\ KeyIn(key, result) THEN result.v[key] ELSE result
    IN  IF final.t = "dict" /\ "data" \in DOMAIN final.v
        THEN Return(final.v["data"])
        ELSE Return(final)

\* rule 2 never tried
Unwrap_NoData(method, result) ==
    LET key == method \o "Result" IN
    IF result.t = "dict" /\ KeyIn(key, result) THEN Return(result.v[key]) ELSE Return(result)

\* the result key looked up without testing that it is there
Unwrap_NoKeyTest(method, result) ==
    LET key == method \o "Result" IN
    IF result.t = "dict" /\ key \in DOMAIN result.v
    THEN LET final == result.v[key] IN
         IF final.t = "dict" /\ "data" \in DOMAIN final.v
         THEN Return(final.v["data"])
         ELSE Return(final)
    ELSE Raise("KeyError")

\* lines 61-68, for a decoded result that supports "in": indexing a list or
\* a str with the key raises TypeError
Unwrap(method, result) ==
    LET key == method \o "Result" IN
    IF KeyIn(key, result)
    THEN IF result.t # "dict"
         THEN Raise("TypeError")
         ELSE LET final == result.v[key] IN
              IF final.t = "dict" /\ "data" \in DOMAIN final.v
              THEN Return(final.v["data"])
              ELSE Return(final)
    ELSE Return(result)

\* line 56: os.path.join(a, p) for two strings.  A p that begins with "/"
\* is the whole result; otherwise p follows a, after a "/" where a is not
\* empty and does not end with one.
os_path_join(a, p) ==
    IF Len(p) > 0 /\ SubSeq(p, 1, 1) = "/"
    THEN p
    ELSE IF a = "" \/ SubSeq(a, Len(a), Len(a)) = "/"
    THEN a \o p
    ELSE a \o "/" \o p

\* a post without the stored headers
PostArgs_NoHeaders(method, data) ==
    [url |-> os_path_join(BASE_URL, method), data |-> data, auth |-> auth,
     headers |-> EmptyMap]

\* the keyword arguments of requests.post
PostArgs(method, data) ==
    [url |-> os_path_join(BASE_URL, method), data |-> data, auth |-> auth,
     headers |-> headers]

\* line 59: requests.post prepares the request before it asks the transport,
\* and raises MissingSchema, a ValueError, for a url without a scheme
HasScheme(url) ==
    \/ Len(url) >= 7 /\ SubSeq(url, 1, 7) = "http://"
    \/ Len(url) >= 8 /\ SubSeq(url, 1, 8) = "https://"

\* how _request ends once the transport has answered resp, or once
\* requests.post has refused the url
RequestOutcome(method, resp) ==
    IF ~HasScheme(os_path_join(BASE_URL, method))
    THEN Raise("ValueError")
    ELSE IF resp.status = 0
    THEN Raise("ConnectionError")
    ELSE IF resp.body.t = "notjson"
    THEN Raise("ValueError")
    ELSE IF resp.body.t \in {"dict", "list", "str"}
    THEN Unwrap(method, resp.body)
    ELSE Raise("TypeError")

\* a failed post tried a second time
_request_Retry(method, data, resp) ==
    [outcome |-> RequestOutcome(method, resp),
     invokes |-> 1,
     posts |-> IF RequestOutcome(method, resp) = Raise("ConnectionError") THEN 2 ELSE 1,
     request |-> PostArgs(method, data),
     response |-> IF HasScheme(PostArgs(method, data).url) THEN resp ELSE NoResponse]

\* the effect of one call of self._request(method, data), where resp is
\* what the transport answers if it is asked: for a url without a scheme it
\* is not, and there is no response
_request(method, data, resp) ==
    [outcome |-> RequestOutcome(method, resp),
     invokes |-> 1,
     posts |-> 1,
     request |-> PostArgs(method, data),
     response |-> IF HasScheme(PostArgs(method, data).url) THEN resp ELSE NoResponse]

\* the effect of a call that makes no request and ends as result says
Pure(result) ==
    [outcome |-> result, invokes |-> 0, posts |-> 0, request |-> NoRequest,
     response |-> NoResponse]

\* the effect of an operation that ends with error e before any _request
Fails(e) ==
    [outcome |-> Raise(e), invokes |-> 0, posts |-> 0, request |-> NoRequest,
     response |-> NoResponse]

-----------------------------------------------------------------------------
(* Inputs *)

Usernames == {"alice"}
ApiKeys == {"k1", "k2"}
Zones == {FixedZone(0), FixedZone(3600), EST5EDT}

IntList == PyList(<<PyInt(1), PyInt(2), PyInt(3)>>)
ErrorString == PyStr("OVERLIMIT: too many alerts")

\* the JSON bodies a server may answer to a request for method
Bodies(method) ==
    LET key == method \o "Result"
        other == (IF method = "Foo" THEN "Bar" ELSE "Foo") \o "Result"
    IN  { PyDict(key :> PyInt(42)),
          PyDict(key :> IntList),
          PyDict(key :> ErrorString),
          PyDict(key :> PyDict("data" :> IntList)),
          PyDict(key :> PyDict("next_offset" :> PyInt(15))),
          PyDict((key :> PyDict("data" :> PyInt(7))) @@ ("data" :> PyInt(8))),
          PyDict("data" :> IntList),
          PyDict("error" :> PyStr("INVALID_ARGUMENT")),
          PyDict("unexpectedKey" :> PyStr("value")),
          PyDict(other :> PyDict("data" :> IntList)),
          PyDict(EmptyMap),
          IntList,
          ErrorString,
          PyStr("no " \o key \o " for you"),
          PyInt(42) }

Responses(method) ==
    IF ~HasScheme(os_path_join(BASE_URL, method))
    THEN {NoResponse}
    ELSE {TransportFailure}
         \cup {HttpResponse(200, b) : b \in Bodies(method) \cup {NotJson}}
         \cup {HttpResponse(401, NotJson),
               HttpResponse(401, PyDict("error" :> PyStr("NO_AUTH")))}

\* the answers tried on the operations that only pass on what _request returns
FewResponses(method) ==
    IF ~HasScheme(os_path_join(BASE_URL, method))
    THEN {NoResponse}
    ELSE {TransportFailure, HttpResponse(200, NotJson)}
         \cup {HttpResponse(200, b) :
                  b \in { PyDict((method \o "Result") :> PyDict("data" :> IntList)),
                          PyDict((method \o "Result") :> ErrorString),
                          PyDict("error" :> PyStr("INVALID_ARGUMENT")) }}

-----------------------------------------------------------------------------
(* The state machine *)

NoCall == [op |-> "none", args |-> EmptyMap]

Threads == 1..NumThreads

\* the local variables of one _request call; r is the response once it is there
NoFrame == [method |-> "", data |-> None, url |-> "", r |-> NoResponse]

\* a thread that runs no call: pc is the place the thread is at, asked the
\* call it was given, frame its local variables, sent what it handed to
\* requests.post, answered what the transport returned to it, result how its
\* call ended
IdleThread ==
    [pc |-> "idle", asked |-> [method |-> "", data |-> None], frame |-> NoFrame,
     sent |-> NoRequest, answered |-> NoResponse, result |-> Return(None)]

\* Client.__init__
Client_init(username, api_key) ==
    /\ auth = [username |-> username, password |-> api_key]
    /\ headers = ("Content-Type" :> "application/x-www-form-urlencoded")

Init ==
    /\ \E u \in Usernames, k \in ApiKeys : Client_init(u, k)
    /\ tz \in Zones
    /\ ncalls = 0
    /\ invokes = 0
    /\ posts = 0
    /\ call = NoCall
    /\ request = NoRequest
    /\ response = NoResponse
    /\ outcome = Return(None)
    /\ default_parameters = OrderedDict(<<>>)
    /\ default_channels = PyList(<<>>)
    /\ threads = [t \in Threads |-> IdleThread]

\* the caller makes another call
CanCall == ncalls < MaxCalls

\* one call of operation op with arguments args, whose effect is eff
Step(op, args, eff) ==
    /\ ncalls' = ncalls + 1
    /\ invokes' = invokes + eff.invokes
    /\ posts' = posts + eff.posts
    /\ call' = [op |-> op, args |-> args]
    /\ request' = eff.request
    /\ response' = eff.response
    /\ outcome' = eff.outcome
    /\ UNCHANGED <<auth, headers, tz, default_parameters, default_channels, threads>>

\* "/Bar" begins with "/": os.path.join drops BASE_URL for it
InvokeMethods == {"Foo", "Bar", "/Bar"}
InvokeData == {None, PyDict("ident" :> PyStr("N123"))}

\* a direct call of client._request(method, data)
invoke ==
    /\ CanCall
    /\ \E method \in InvokeMethods, data \in InvokeData :
      \E resp \in Responses(method) :
        Step("_request", ("method" :> PyStr(method)) @@ ("data" :> data),
             _request(method, data, resp))

\* an operation that builds data from its arguments and returns what
\* self._request(method, data) returns
PassThrough(op, args, method, data) ==
    \E resp \in FewResponses(method) : Step(op, args, _request(method, data, resp))

Airports == {PyStr("KLAX")}
Idents == {PyStr("N123")}
FlightIds == {PyStr("UAL1-1")}

aircraft_type ==
    /\ CanCall
    /\ \E a \in {PyStr("GALX")} :
      PassThrough("aircraft_type", "aircraft_type" :> a, "AircraftType", PyDict("type" :> a))

airline_flight_info ==
    /\ CanCall
    /\ \E f \in FlightIds :
      PassThrough("airline_flight_info", "fa_flight_id" :> f, "AirlineFlightInfo",
                  PyDict("faFlightID" :> f))

airline_info ==
    /\ CanCall
    /\ \E a \in {PyStr("UAL")} :
      PassThrough("airline_info", "airline" :> a, "AirlineInfo", PyDict("airlineCode" :> a))

AirlineInsightReportType_PERCENTAGE_SCHEDULED_ACTUALLY_FLOWN == 2

airline_insight ==
    /\ CanCall
    /\ \E o \in Airports, d \in {PyStr("KSFO")},
       r \in {PyInt(AirlineInsightReportType_PERCENTAGE_SCHEDULED_ACTUALLY_FLOWN)} :
      PassThrough("airline_insight",
                  ("origin" :> o) @@ ("destination" :> d) @@ ("report_type" :> r),
                  "AirlineInsight",
                  PyDict(("origin" :> o) @@ ("destination" :> d) @@ ("reportType" :> r)))

airport_info ==
    /\ CanCall
    /\ \E a \in Airports :
      PassThrough("airport_info", "airport" :> a, "AirportInfo", PyDict("airportCode" :> a))

all_airlines == CanCall /\ PassThrough("all_airlines", EmptyMap, "AllAirlines", None)

all_airports == CanCall /\ PassThrough("all_airports", EmptyMap, "AllAirports", None)

block_indent_check ==
    /\ CanCall
    /\ \E i \in Idents :
      PassThrough("block_indent_check", "ident" :> i, "BlockIdentCheck", PyDict("ident" :> i))

count_airport_operations ==
    /\ CanCall
    /\ \E a \in Airports :
      PassThrough("count_airport_operations", "airport" :> a, "CountAirportOperations",
                  PyDict("airport" :> a))

count_all_enroute_airline_operations ==
    /\ CanCall
    /\ PassThrough("count_all_enroute_airline_operations", EmptyMap,
                "CountAllEnrouteAirlineOperations", None)

decode_flight_route ==
    /\ CanCall
    /\ \E f \in FlightIds :
      PassThrough("decode_flight_route", "fa_flight_id" :> f, "DecodeFlightRoute",
                  PyDict("faFlightID" :> f))

get_last_track ==
    /\ CanCall
    /\ \E i \in Idents :
      PassThrough("get_last_track", "ident" :> i, "GetLastTrack", PyDict("ident" :> i))

in_flight_info ==
    /\ CanCall
    /\ \E i \in Idents :
      PassThrough("in_flight_info", "ident" :> i, "InFlightInfo", PyDict("ident" :> i))

metar ==
    /\ CanCall
    /\ \E a \in Airports :
      PassThrough("metar", "airport" :> a, "Metar", PyDict("airport" :> a))

metar_ex ==
    /\ CanCall
    /\ \E a \in Airports :
      PassThrough("metar_ex", "airport" :> a, "MetarEx", PyDict("airport" :> a))

ntaf ==
    /\ CanCall
    /\ \E a \in Airports :
      PassThrough("ntaf", "airport" :> a, "NTaf", PyDict("airport" :> a))

taf ==
    /\ CanCall
    /\ \E a \in Airports :
      PassThrough("taf", "airport" :> a, "NTaf", PyDict("airport" :> a))

routes_between_airports ==
    /\ CanCall
    /\ \E o \in Airports, d \in {PyStr("KSFO")} :
      PassThrough("routes_between_airports", ("origin" :> o) @@ ("destination" :> d),
                  "RoutesBetweenAirports",
                  PyDict(("origin" :> o) @@ ("destination" :> d)))

tail_owner ==
    /\ CanCall
    /\ \E i \in Idents :
      PassThrough("tail_owner", "ident" :> i, "TailOwner", PyDict("ident" :> i))

zipcode_info ==
    /\ CanCall
    /\ \E z \in {PyStr("77002")} :
      PassThrough("zipcode_info", "zipcode" :> z, "ZipcodeInfo", PyDict("zipcode" :> z))

get_alerts == CanCall /\ PassThrough("get_alerts", EmptyMap, "GetAlerts", PyDict(EmptyMap))

register_alert_endpoint ==
    /\ CanCall
    /\ \E a \in {PyStr("http://example.com/cb")}, f \in {PyStr("json/post")} :
      PassThrough("register_alert_endpoint", ("address" :> a) @@ ("format_type" :> f),
                  "RegisterAlertEndpoint",
                  PyDict(("address" :> a) @@ ("format_type" :> f)))

-----------------------------------------------------------------------------
(* Operations with a traffic filter *)

TrafficFilters == {TrafficFilter_ALL, TrafficFilter_GA}

\* the data of arrived, departed, enroute and scheduled
AirportData(airport, how_many, filter, offset) ==
    PyDict(("airport" :> airport) @@ ("howMany" :> how_many) @@ ("filter" :> filter)
           @@ ("offset" :> offset))

AirportArgs(airport, how_many, filter, offset) ==
    ("airport" :> airport) @@ ("how_many" :> how_many) @@ ("filter" :> filter)
    @@ ("offset" :> offset)

arrived ==
    /\ CanCall
    /\ \E a \in Airports, h \in {PyInt(MAX_RECORD_LENGTH)}, f \in TrafficFilters, o \in {PyInt(0)} :
      PassThrough("arrived", AirportArgs(a, h, f, o), "Arrived", AirportData(a, h, f, o))

departed ==
    /\ CanCall
    /\ \E a \in Airports, h \in {PyInt(MAX_RECORD_LENGTH)}, f \in TrafficFilters, o \in {PyInt(0)} :
      PassThrough("departed", AirportArgs(a, h, f, o), "Departed", AirportData(a, h, f, o))

enroute ==
    /\ CanCall
    /\ \E a \in Airports, h \in {PyInt(MAX_RECORD_LENGTH)}, f \in TrafficFilters, o \in {PyInt(0)} :
      PassThrough("enroute", AirportArgs(a, h, f, o), "Enroute", AirportData(a, h, f, o))

scheduled ==
    /\ CanCall
    /\ \E a \in Airports, h \in {PyInt(MAX_RECORD_LENGTH)}, f \in TrafficFilters, o \in {PyInt(0)} :
      PassThrough("scheduled", AirportArgs(a, h, f, o), "Scheduled", AirportData(a, h, f, o))

-----------------------------------------------------------------------------
(* Operations with timestamps *)

\* the values a caller may hand over where a datetime is expected
TimestampInputs ==
    { None, DateTime(0, 0), DateTime(3600, 0), DateTime(1, 500000),
      DateTime(-2, 500000), Date(18000), PyInt(0), PyInt(1500000000), PyStr(""),
      PyStr("2020-01-01"), PyList(<<>>) }

\* lines 342-345: the data of get_flight_id, or the error that building it raises
get_flight_id_data(ident, departure_datetime) ==
    LET d == to_unix_timestamp(departure_datetime) IN
    IF d.kind = "raise" THEN d
    ELSE Return(PyDict(("ident" :> ident) @@ ("departureTime" :> d.value)))

get_flight_id ==
    /\ CanCall
    /\ \E i \in Idents, d \in TimestampInputs :
      LET args == ("ident" :> i) @@ ("departure_datetime" :> d)
          data == get_flight_id_data(i, d)
      IN  IF data.kind = "raise"
          THEN Step("get_flight_id", args, Fails(data.exc))
          ELSE \E resp \in FewResponses("GetFlightID") :
                 Step("get_flight_id", args, _request("GetFlightID", data.value, resp))

\* absent filters sent as empty strings
airline_flight_schedules_data_Blank(start_date, end_date, origin, destination, airline, flight_number, how_many, offset) ==
    LET Blank(x) == IF x = None THEN PyStr("") ELSE x
        s == to_unix_timestamp(start_date)
    IN  IF s.kind = "raise" THEN s
        ELSE LET e == to_unix_timestamp(end_date) IN
             IF e.kind = "raise" THEN e
             ELSE Return(PyDict(("startDate" :> s.value) @@ ("endDate" :> e.value)
                                @@ ("origin" :> Blank(origin))
                                @@ ("destination" :> Blank(destination))
                                @@ ("airline" :> Blank(airline))
                                @@ ("flightno" :> Blank(flight_number))
                                @@ ("howMany" :> how_many) @@ ("offset" :> offset)))

\* lines 108-117: the data of airline_flight_schedules, or the error that
\* building it raises
airline_flight_schedules_data(start_date, end_date, origin, destination, airline, flight_number, how_many, offset) ==
    LET s == to_unix_timestamp(start_date) IN
    IF s.kind = "raise" THEN s
    ELSE LET e == to_unix_timestamp(end_date) IN
         IF e.kind = "raise" THEN e
         ELSE Return(PyDict(("startDate" :> s.value) @@ ("endDate" :> e.value)
                            @@ ("origin" :> origin) @@ ("destination" :> destination)
                            @@ ("airline" :> airline) @@ ("flightno" :> flight_number)
                            @@ ("howMany" :> how_many) @@ ("offset" :> offset)))

\* the two derived fields computed from each other's source field
AddItemTimes_Swapped(item) ==
    IF item.t # "dict" THEN Raise("TypeError")
    ELSE IF "departuretime" \notin DOMAIN item.v THEN Raise("KeyError")
    ELSE LET d == from_unix_timestamp(item.v["departuretime"]) IN
         IF d.kind = "raise" THEN d
         ELSE LET item1 == ("arrival_time" :> d.value) @@ item.v IN
              IF "arrivaltime" \notin DOMAIN item1 THEN Raise("KeyError")
              ELSE LET a == from_unix_timestamp(item1["arrivaltime"]) IN
                   IF a.kind = "raise" THEN a
                   ELSE Return(PyDict(("departure_time" :> a.value) @@ item1))

\* lines 120-121: the loop body for one item of the results
AddItemTimes(item) ==
    IF item.t # "dict" THEN Raise("TypeError")
    ELSE IF "departuretime" \notin DOMAIN item.v THEN Raise("KeyError")
    ELSE LET d == from_unix_timestamp(item.v["departuretime"]) IN
         IF d.kind = "raise" THEN d
         ELSE LET item1 == ("departure_time" :> d.value) @@ item.v IN
              IF "arrivaltime" \notin DOMAIN item1 THEN Raise("KeyError")
              ELSE LET a == from_unix_timestamp(item1["arrivaltime"]) IN
                   IF a.kind = "raise" THEN a
                   ELSE Return(PyDict(("arrival_time" :> a.value) @@ item1))

\* lines 119-122: the loop over the results and the return
AddTimes(results) ==
    CASE results.t = "list" ->
           LET outs == [i \in 1..Len(results.v) |-> AddItemTimes(results.v[i])]
               bad == {i \in 1..Len(results.v) : outs[i].kind = "raise"}
           IN  IF bad # {}
               THEN Raise(outs[CHOOSE i \in bad : \A j \in bad : i <= j].exc)
               ELSE Return(PyList([i \in 1..Len(results.v) |-> outs[i].value]))
      [] results.t = "dict" ->
           \* iterates over the keys, which are strings
           IF DOMAIN results.v = {} THEN Return(results) ELSE Raise("TypeError")
      [] results.t = "str" ->
           \* iterates over the characters
           IF results.v = "" THEN Return(results) ELSE Raise("TypeError")
      [] OTHER -> Raise("TypeError")

\* lines 118-122: the effect of airline_flight_schedules once data is built
airline_flight_schedules_effect(data, resp) ==
    LET r == _request("AirlineFlightSchedules", data, resp) IN
    IF r.outcome.kind = "raise" THEN r
    ELSE [r EXCEPT !.outcome = AddTimes(r.outcome.value)]

Schedule1 ==
    PyDict(("ident" :> PyStr("UAL1")) @@ ("departuretime" :> PyInt(0))
           @@ ("arrivaltime" :> PyInt(3600)))
Schedule2 ==
    PyDict(("ident" :> PyStr("QFA2")) @@ ("departuretime" :> PyInt(-7200))
           @@ ("arrivaltime" :> PyInt(86400)) @@ ("departure_time" :> PyStr("stale")))

\* the JSON bodies a server may answer to AirlineFlightSchedules
ScheduleBodies ==
    LET key == "AirlineFlightSchedulesResult"
        ScheduleNoArrival ==
            PyDict(("ident" :> PyStr("UAL3")) @@ ("departuretime" :> PyInt(60)))
        ScheduleTextTimes ==
            PyDict(("departuretime" :> PyStr("0")) @@ ("arrivaltime" :> PyStr("3600")))
        \* 4102444800 is 2100-01-01T00:00:00 UTC and 2147483647 is 2^31 - 1
        ScheduleFar ==
            PyDict(("departuretime" :> PyLong(1, 47482, 0))
                   @@ ("arrivaltime" :> PyLong(1, 24855, 11647)))
        \* 253402300800 is 10000-01-01T00:00:00 UTC
        ScheduleBeyond ==
            PyDict(("departuretime" :> PyInt(0)) @@ ("arrivaltime" :> PyLong(1, MaxDays + 1, 0)))
    IN
    { PyDict(key :> PyDict("data" :> PyList(<<Schedule1, Schedule2>>))),
      PyDict(key :> PyDict("data" :> PyList(<<Schedule2, Schedule1>>))),
      PyDict(key :> PyDict("data" :> PyList(<<ScheduleFar>>))),
      PyDict(key :> PyDict("data" :> PyList(<<>>))),
      PyDict(key :> PyList(<<Schedule2, ScheduleBeyond>>)),
      PyDict(key :> PyDict("data" :> PyList(<<Schedule1, ScheduleNoArrival>>))),
      PyDict(key :> PyDict("data" :> PyList(<<ScheduleTextTimes>>))),
      PyDict(key :> PyDict("data" :> IntList)),
      PyDict(key :> ErrorString),
      PyDict(key :> PyStr("")),
      PyDict(key :> PyInt(42)),
      PyDict(key :> PyDict("next_offset" :> PyInt(15))),
      PyDict("error" :> PyStr("INVALID_ARGUMENT")),
      PyDict(EmptyMap) }

ScheduleResponses ==
    {TransportFailure, HttpResponse(200, NotJson),
     HttpResponse(401, PyDict("error" :> PyStr("NO_AUTH")))}
    \cup {HttpResponse(200, b) : b \in ScheduleBodies}

\* origin, destination, airline, flight_number
ScheduleFilters ==
    { <<None, None, None, None>>,
      <<PyStr("KLAX"), PyStr("KSFO"), PyStr("UAL"), PyStr("1")>> }

airline_flight_schedules ==
    /\ CanCall
    /\ \E sd \in {None, DateTime(0, 0), PyInt(0), PyInt(1500000000), Date(18000)},
          ed \in {None, DateTime(7200, 0), PyStr("2020-01-01")}, f \in ScheduleFilters,
       h \in {PyInt(MAX_RECORD_LENGTH)}, o \in {PyInt(0)} :
      LET args == ("start_date" :> sd) @@ ("end_date" :> ed) @@ ("origin" :> f[1])
                  @@ ("destination" :> f[2]) @@ ("airline" :> f[3])
                  @@ ("flight_number" :> f[4]) @@ ("how_many" :> h) @@ ("offset" :> o)
          data == airline_flight_schedules_data(sd, ed, f[1], f[2], f[3], f[4], h, o)
      IN  IF data.kind = "raise"
          THEN Step("airline_flight_schedules", args, Fails(data.exc))
          ELSE \E resp \in ScheduleResponses :
                 Step("airline_flight_schedules", args,
                      airline_flight_schedules_effect(data.value, resp))

-----------------------------------------------------------------------------
(* search *)

\* str(val), as "%s" renders it in a format string
Str(val) ==
    CASE val.t = "str" -> val.v
      [] val.t = "int" -> ToString(val.v)
      [] val.t = "bool" -> (IF val.v THEN "True" ELSE "False")
      [] val.t = "none" -> "None"

\* the query with the entries joined in the opposite order
RECURSIVE search_query_Reversed(_)
search_query_Reversed(items) ==
    IF items = <<>>
    THEN ""
    ELSE search_query_Reversed(Tail(items))
         \o "-" \o Str(Head(items)[1]) \o " " \o Str(Head(items)[2]) \o " "

\* lines 515-517: query after the loop has run over items, the (key, value)
\* pairs of parameters.items() in their order
RECURSIVE search_query(_)
search_query(items) ==
    IF items = <<>>
    THEN ""
    ELSE LET n == Len(items) IN
         search_query(SubSeq(items, 1, n - 1))
         \o "-" \o Str(items[n][1]) \o " " \o Str(items[n][2]) \o " "

\* lines 515-518: the data of search, or the error that building it raises
search_data(parameters, how_many, offset) ==
    IF parameters.t # "odict"
    THEN Raise("AttributeError")
    ELSE Return(PyDict(("query" :> PyStr(search_query(parameters.v)))
                       @@ ("howMany" :> how_many) @@ ("offset" :> offset)))

FilterType == <<PyStr("type"), PyStr("B77*")>>
FilterBelowAltitude == <<PyStr("belowAltitude"), PyInt(100)>>

\* what a caller may pass as parameters
SearchParameters ==
    { Omitted, None, OrderedDict(<<>>), OrderedDict(<<FilterType>>),
      OrderedDict(<<FilterType, FilterBelowAltitude>>),
      OrderedDict(<<FilterBelowAltitude, FilterType>>) }

search ==
    /\ CanCall
    /\ \E p \in SearchParameters, h \in {PyInt(MAX_RECORD_LENGTH)}, o \in {PyInt(0), PyInt(15)} :
      LET parameters == IF p = Omitted THEN default_parameters ELSE p
          args == ("parameters" :> p) @@ ("how_many" :> h) @@ ("offset" :> o)
          data == search_data(parameters, h, o)
      IN  IF data.kind = "raise"
          THEN Step("search", args, Fails(data.exc))
          ELSE \E resp \in FewResponses("Search") :
                 Step("search", args, _request("Search", data.value, resp))

-----------------------------------------------------------------------------
(* delete_alert and set_alert *)

\* "if val:" in the place of "if val is not None:"
IsNotNone_Truthy(val) == Truthy(val)

\* val is not None
IsNotNone(val) == val # None

AlertIds == {None, PyInt(0), PyInt(5)}

\* lines 591-593; without an alert_id the body ends and the call returns None
delete_alert ==
    /\ CanCall
    /\ \E alert_id \in AlertIds :
      IF IsNotNone(alert_id)
      THEN PassThrough("delete_alert", "alert_id" :> alert_id, "DeleteAlert",
                       PyDict("alert_id" :> alert_id))
      ELSE Step("delete_alert", "alert_id" :> alert_id, Pure(Return(None)))

\* len(val), for a val of a type that len() takes
PyLen(val) ==
    CASE val.t = "list" -> Len(val.v)
      [] val.t = "str" -> Len(val.v)
      [] val.t = "dict" -> Cardinality(DOMAIN val.v)
      [] val.t = "odict" -> Len(val.v)

\* data[key] = val when val is not None
PutIfNotNone(data, key, val) == IF IsNotNone(val) THEN (key :> val) @@ data ELSE data

\* channels stored whatever its length
set_alert_data_AlwaysChannels(alert_id, ident, origin, destination, aircrafttype, date_start, date_end, channels, enabled, max_weekly) ==
    LET d0 == ("alert_id" :> alert_id) @@ ("enabled" :> enabled) @@ ("max_weekly" :> max_weekly)
        d1 == PutIfNotNone(d0, "ident", ident)
        d2 == PutIfNotNone(d1, "origin", origin)
        d3 == PutIfNotNone(d2, "destination", destination)
        d4 == PutIfNotNone(d3, "aircrafttype", aircrafttype)
        d5 == PutIfNotNone(d4, "date_start", date_start)
        d6 == PutIfNotNone(d5, "date_end", date_end)
        d7 == ("channels" :> channels) @@ d6
    IN  Return(PyDict(PutIfNotNone(d7, "enabled", enabled)))

\* lines 667-687: the data of set_alert, or the error that building it raises
\* (len(channels) of a channels that has no length)
set_alert_data(alert_id, ident, origin, destination, aircrafttype, date_start, date_end, channels, enabled, max_weekly) ==
    LET d0 == ("alert_id" :> alert_id) @@ ("enabled" :> enabled) @@ ("max_weekly" :> max_weekly)
        d1 == PutIfNotNone(d0, "ident", ident)
        d2 == PutIfNotNone(d1, "origin", origin)
        d3 == PutIfNotNone(d2, "destination", destination)
        d4 == PutIfNotNone(d3, "aircrafttype", aircrafttype)
        d5 == PutIfNotNone(d4, "date_start", date_start)
        d6 == PutIfNotNone(d5, "date_end", date_end)
    IN  IF channels.t \notin {"list", "str", "dict", "odict"}
        THEN Raise("TypeError")
        ELSE LET d7 == IF PyLen(channels) > 0 THEN ("channels" :> channels) @@ d6 ELSE d6
             IN  Return(PyDict(PutIfNotNone(d7, "enabled", enabled)))

\* the names of set_alert's parameters, in their order
AlertParameters ==
    << "alert_id", "ident", "origin", "destination", "aircrafttype", "date_start",
       "date_end", "channels", "enabled", "max_weekly" >>

Channels == PyList(<<PyStr("{16 e_filed e_departure}")>>)

\* the arguments of some calls of set_alert, in the order of AlertParameters
AlertArguments ==
    { <<PyInt(0), None, None, None, None, None, None, Omitted, PyBool(TRUE), PyInt(1000)>>,
      <<PyInt(0), None, None, None, None, None, None, Omitted, None, PyInt(1000)>>,
      <<PyInt(7), PyStr("N123"), PyStr("KLAX"), None, PyStr("B77*"), PyInt(1500000000), None,
        Channels, PyBool(FALSE), PyInt(5)>>,
      <<PyInt(0), PyStr(""), None, PyStr("KSFO"), None, None, PyInt(0), PyList(<<>>),
        PyBool(TRUE), PyInt(1000)>>,
      <<PyInt(0), None, None, None, None, None, None, None, PyBool(TRUE), PyInt(1000)>>,
      <<PyInt(0), PyStr("N123"), None, None, None, None, None,
        PyStr("{16 e_filed e_departure}"), PyBool(TRUE), PyInt(1000)>>,
      <<PyInt(0), PyStr("N123"), None, None, None, None, None, PyStr(""), PyBool(TRUE),
        PyInt(1000)>>,
      <<None, PyStr("N123"), None, None, None, None, None, Channels, PyBool(TRUE), None>> }

set_alert ==
    /\ CanCall
    /\ \E a \in AlertArguments :
      LET args == [k \in {AlertParameters[i] : i \in 1..10} |->
                     a[CHOOSE i \in 1..10 : AlertParameters[i] = k]]
          channels == IF a[8] = Omitted THEN default_channels ELSE a[8]
          data == set_alert_data(a[1], a[2], a[3], a[4], a[5], a[6], a[7], channels, a[9], a[10])
      IN  IF data.kind = "raise"
          THEN Step("set_alert", args, Fails(data.exc))
          ELSE \E resp \in FewResponses("SetAlert") :
                 Step("set_alert", args, _request("SetAlert", data.value, resp))

-----------------------------------------------------------------------------
(* The converters called on their own *)

\* the values tried on to_unix_timestamp: with the usual ones, datetimes
\* centuries away from EPOCH (2^34 seconds is in the year 2514) and
\* datetimes at the ends of the years 1 to 9999
ConverterInputs ==
    TimestampInputs
    \cup { DateTimeAt(198841, 6783, 999999), DateTimeAt(198841, 6784, 0),
           DateTimeAt(198841, 6784, 999998), DateTimeAt(198841, 6784, 999999),
           DateTimeAt(-198842, 79615, 1), DateTimeAt(-198842, 79615, 2),
           DateTimeAt(200000, 86399, 999999), DateTimeAt(1590728, 54272, 999984),
           DateTimeAt(1590728, 54272, 999985) }
    \cup { DateTimeAt(MinDays, 0, 0), DateTimeAt(MinDays + 1, 0, 0),
           DateTimeAt(MinDays + 1, 18000, 0), DateTimeAt(MaxDays, 82800, 0),
           DateTimeAt(MaxDays, 86399, 0) }
    \cup { DateTime(-1, 999999), DateTime(-1, 0), DateTime(-86400, 0), DateTime(86399, 999999),
           DateTime(1500000000, 0) }

WireInputs ==
    { PyInt(0), PyInt(3600), PyInt(-7200), PyInt(1500000000), PyBool(TRUE), None, PyStr("0"),
      PyLong(1, 198841, 6785), PyLong(-1, 198841, 6785),
      PyInt(1489301999), PyInt(1489302000), PyInt(1509861599), PyInt(1509861600),
      PyInt(-7776000), PyLong(1, MaxDays, 86399), PyLong(1, MaxDays + 1, 0),
      PyLong(-1, -MinDays, 0), PyLong(-1, -MinDays - 1, 0), PyLong(-1, -MinDays + 1, 1) }

\* to_unix_timestamp(val) called by itself
call_to_unix_timestamp ==
    /\ CanCall
    /\ \E val \in ConverterInputs :
      Step("to_unix_timestamp", "val" :> val, Pure(to_unix_timestamp(val)))

\* from_unix_timestamp(val) called by itself
call_from_unix_timestamp ==
    /\ CanCall
    /\ \E val \in WireInputs :
      Step("from_unix_timestamp", "val" :> val, Pure(from_unix_timestamp(val)))

\* from_unix_timestamp(to_unix_timestamp(val))
round_trip ==
    /\ CanCall
    /\ \E val \in ConverterInputs :
      LET wire == to_unix_timestamp(val) IN
      Step("round_trip", "val" :> val,
           IF wire.kind = "raise" THEN Pure(wire) ELSE Pure(from_unix_timestamp(wire.value)))

-----------------------------------------------------------------------------
(* _request called from several threads at once.  A thread is at "idle",    *)
(* "post" (line 59 is next), "wait" (inside requests.post), "answered"      *)
(* (line 60 is next) or "done".                                             *)

AtPc(pc) == \E t \in Threads : threads[t].pc = pc

\* one frame kept for all threads
FrameOf_Shared(t) == threads[1].frame

\* method, data, url, r, result, final and key are local variables: the call
\* that runs in thread t reads and writes its own
FrameOf(t) == threads[t].frame

\* lines 55-56: thread t enters _request(method, data)
thread_call ==
    /\ CanCall
    /\ \E t \in Threads, method \in InvokeMethods, data \in InvokeData :
      /\ threads[t].pc \in {"idle", "done"}
      /\ threads' = [threads EXCEPT ![t] =
                       [IdleThread EXCEPT
                          !.pc = "post",
                          !.asked = [method |-> method, data |-> data],
                          !.frame = [NoFrame EXCEPT !.method = method, !.data = data,
                                                    !.url = os_path_join(BASE_URL, method)]]]
      /\ ncalls' = ncalls + 1
      /\ invokes' = invokes + 1
      /\ UNCHANGED <<auth, headers, tz, posts, call, request, response, outcome,
                     default_parameters, default_channels>>

\* line 59: thread t calls requests.post
thread_post ==
    /\ AtPc("post")
    /\ \E t \in Threads :
      /\ threads[t].pc = "post"
      /\ threads' = [threads EXCEPT
                       ![t].pc = "wait",
                       ![t].sent = [url |-> FrameOf(t).url, data |-> FrameOf(t).data,
                                    auth |-> auth, headers |-> headers]]
      /\ posts' = posts + 1
      /\ UNCHANGED <<auth, headers, tz, ncalls, invokes, call, request, response, outcome,
                     default_parameters, default_channels>>

\* line 59: requests.post returns in thread t what the server answered to
\* the request of thread t; for a url without a scheme it has nothing to
\* return, r stays unbound and the call is left with the error to raise
thread_answer ==
    /\ AtPc("wait")
    /\ \E t \in Threads :
      /\ threads[t].pc = "wait"
      /\ \E resp \in FewResponses(CHOOSE m \in InvokeMethods :
                                      threads[t].sent.url = os_path_join(BASE_URL, m)) :
           threads' = [threads EXCEPT
                         ![t].pc = "answered",
                         ![t].answered = resp,
                         ![t].frame = [threads[t].frame EXCEPT !.r = resp]]
      /\ UNCHANGED <<auth, headers, tz, ncalls, invokes, posts, call, request, response,
                     outcome, default_parameters, default_channels>>

\* lines 59-68: thread t decodes and unwraps r, or raises
thread_return ==
    /\ AtPc("answered")
    /\ \E t \in Threads :
      /\ threads[t].pc = "answered"
      /\ threads' = [threads EXCEPT
                       ![t].pc = "done",
                       ![t].result = RequestOutcome(FrameOf(t).method, FrameOf(t).r)]
      /\ UNCHANGED <<auth, headers, tz, ncalls, invokes, posts, call, request, response,
                     outcome, default_parameters, default_channels>>

-----------------------------------------------------------------------------
(* Operations that are not implemented *)

\* a placeholder that sends a request
Unimplemented_Requests(op, args) == PassThrough(op, args, "FlightInfo", PyDict(args))

Unimplemented(op, args) == Step(op, args, Fails("NotImplementedError"))

decode_route == CanCall /\ Unimplemented("decode_route", EmptyMap)
fleet_arrived == CanCall /\ Unimplemented("fleet_arrived", EmptyMap)
fleet_scheduled == CanCall /\ Unimplemented("fleet_scheduled", EmptyMap)
flight_info ==
    /\ CanCall
    /\ \E i \in Idents \cup {None}, h \in {PyInt(MAX_RECORD_LENGTH), PyInt(0)} :
      Unimplemented("flight_info", ("ident" :> i) @@ ("how_many" :> h))
flight_info_ex == CanCall /\ Unimplemented("flight_info_ex", EmptyMap)
get_historical_track == CanCall /\ Unimplemented("get_historical_track", EmptyMap)
inbound_flight_info == CanCall /\ Unimplemented("inbound_flight_info", EmptyMap)
lat_lng_to_distance == CanCall /\ Unimplemented("lat_lng_to_distance", EmptyMap)
lat_lng_to_heading == CanCall /\ Unimplemented("lat_lng_to_heading", EmptyMap)
map_flight == CanCall /\ Unimplemented("map_flight", EmptyMap)
map_flight_ex == CanCall /\ Unimplemented("map_flight_ex", EmptyMap)
routes_between_airports_ex == CanCall /\ Unimplemented("routes_between_airports_ex", EmptyMap)
search_birdseye_in_flight == CanCall /\ Unimplemented("search_birdseye_in_flight", EmptyMap)
search_birdseye_positions == CanCall /\ Unimplemented("search_birdseye_positions", EmptyMap)
search_count == CanCall /\ Unimplemented("search_count", EmptyMap)
set_maximum_result_sizes == CanCall /\ Unimplemented("set_maximum_result_sizes", EmptyMap)

-----------------------------------------------------------------------------
(* What the claims speak about *)

\* the remote method names the client passes to _request
RemoteMethods ==
    { "AircraftType", "AirlineFlightInfo", "AirlineFlightSchedules", "AirlineInfo",
      "AirlineInsight", "AirportInfo", "AllAirlines", "AllAirports", "BlockIdentCheck",
      "CountAirportOperations", "CountAllEnrouteAirlineOperations", "DecodeFlightRoute",
      "Arrived", "Departed", "Enroute", "GetFlightID", "GetLastTrack", "InFlightInfo",
      "Metar", "MetarEx", "NTaf", "RoutesBetweenAirports", "Scheduled", "Search",
      "TailOwner", "ZipcodeInfo", "GetAlerts", "DeleteAlert", "SetAlert",
      "RegisterAlertEndpoint" }

\* the last operation made a request
Requested == request # NoRequest

\* the remote method the last request went to
RequestedMethod ==
    CHOOSE m \in RemoteMethods \cup InvokeMethods : request.url = os_path_join(BASE_URL, m)

\* the last operation made a request and ended as its _request call ended
Invoked == Requested /\ call.op # "airline_flight_schedules"

\* the transport answered the last request with a JSON object
GotObject == Requested /\ response.status # 0 /\ response.body.t = "dict"

ResultKey == RequestedMethod \o "Result"

\* C1 as stated: a response object without "<M>Result" but with "data" makes
\* invoke return the value stored under "data".
C1_DataOfOriginal ==
    (Invoked /\ GotObject /\ ResultKey \notin DOMAIN response.body.v
       /\ "data" \in DOMAIN response.body.v)
    => outcome = Return(response.body.v["data"])

\* C1 amended: rule 2 is applied only to what rule 1 produced; a response object
\* without "<M>Result" is returned whole, also when it has a key "data".
C1_DataOnlyUnderResult ==
    (Invoked /\ GotObject /\ ResultKey \notin DOMAIN response.body.v
       /\ "data" \in DOMAIN response.body.v)
    => outcome = Return(response.body)

C1_Witness ==
    /\ Invoked /\ GotObject
    /\ response.body = PyDict("data" :> IntList)
    /\ outcome = Return(PyDict("data" :> IntList))

\* C2: a response object with "<M>Result" -> v makes invoke return v["data"]
\* when v is an object with a key "data", and v itself otherwise; the key is
\* built from the remote method the request went to.
C2_ResultUnwrapped ==
    (Invoked /\ GotObject /\ ResultKey \in DOMAIN response.body.v)
    => LET v == response.body.v[ResultKey] IN
       IF v.t = "dict" /\ "data" \in DOMAIN v.v
       THEN outcome = Return(v.v["data"])
       ELSE outcome = Return(v)

C2_Witness ==
    /\ Invoked /\ GotObject
    /\ call.op = "_request"
    /\ ncalls = MaxCalls
    /\ ResultKey \in DOMAIN response.body.v
    /\ response.body.v[ResultKey] = PyDict("data" :> IntList)
    /\ outcome = Return(IntList)

C2_WitnessScalar ==
    /\ Invoked /\ GotObject
    /\ response.body = PyDict("FooResult" :> PyInt(42))
    /\ outcome = Return(PyInt(42))

\* C3: a response object with neither "<M>Result" nor "data" (the result key of
\* another method included) is returned whole, and no error is raised.
C3_NoRuleMatches ==
    (Invoked /\ GotObject /\ ResultKey \notin DOMAIN response.body.v
       /\ "data" \notin DOMAIN response.body.v)
    => outcome = Return(response.body)

C3_Witness ==
    /\ Invoked /\ GotObject
    /\ RequestedMethod = "Foo"
    /\ response.body = PyDict("BarResult" :> PyDict("data" :> IntList))
    /\ outcome = Return(response.body)

\* the operations the client declares and does not implement
UnimplementedOps ==
    { "decode_route", "fleet_arrived", "fleet_scheduled", "flight_info", "flight_info_ex",
      "get_historical_track", "inbound_flight_info", "lat_lng_to_distance",
      "lat_lng_to_heading", "map_flight", "map_flight_ex", "routes_between_airports_ex",
      "search_birdseye_in_flight", "search_birdseye_positions", "search_count",
      "set_maximum_result_sizes" }

\* C4: a call of an unimplemented operation, with any arguments and after any
\* earlier calls, raises NotImplementedError and leaves the number of outbound
\* requests as it was before the call.
C4_UnimplementedFailsWithoutRequest ==
    [][ (ncalls' = ncalls + 1 /\ call'.op \in UnimplementedOps)
        => /\ outcome' = Raise("NotImplementedError")
           /\ posts' = posts
           /\ invokes' = invokes
           /\ request' = NoRequest ]_vars

C4_Witness ==
    /\ call.op = "get_historical_track"
    /\ ncalls = MaxCalls
    /\ posts = MaxCalls - 1
    /\ outcome = Raise("NotImplementedError")

C4_WitnessWithArguments ==
    /\ call.op = "flight_info"
    /\ call.args["ident"] = None
    /\ posts = 0
    /\ outcome = Raise("NotImplementedError")

\* C5 as stated: every present timestamp argument that is not a datetime (the
\* number 0, a date, a string, the empty string and the empty list included)
\* makes the operation fail with a validation error before any request.
C5_MalformedTimestampRejected ==
    LET TimestampArgs ==
            IF call.op = "get_flight_id" THEN {call.args["departure_datetime"]}
            ELSE IF call.op = "airline_flight_schedules"
            THEN {call.args["start_date"], call.args["end_date"]}
            ELSE {}
    IN
    (\E a \in TimestampArgs : a # None /\ a.t # "datetime")
    => (outcome = Raise("ValueError") /\ ~Requested)

\* the optional arguments of the last call, with the parameter each one feeds
OptionalParams ==
    IF call.op = "airline_flight_schedules"
    THEN { <<"start_date", "startDate">>, <<"end_date", "endDate">>,
           <<"origin", "origin">>, <<"destination", "destination">>,
           <<"airline", "airline">>, <<"flight_number", "flightno">> }
    ELSE IF call.op \in {"arrived", "departed", "enroute", "scheduled"}
    THEN { <<"filter", "filter">> }
    ELSE IF call.op = "get_flight_id"
    THEN { <<"departure_datetime", "departureTime">> }
    ELSE {}

\* C6 as stated: an absent optional argument is left out of the parameters
\* handed to the transport.
C6_AbsentParameterOmitted ==
    Requested
    => \A ap \in OptionalParams :
         call.args[ap[1]] = None => ap[2] \notin DOMAIN request.data.v

\* C6 amended: to_unix_timestamp(None) is None, and an absent optional argument
\* is handed to the transport under its parameter name with the value None,
\* never with an empty string or any other value.
C6_AbsentParameterIsNone ==
    Requested
    => \A ap \in OptionalParams :
         call.args[ap[1]] = None
         => (ap[2] \in DOMAIN request.data.v /\ request.data.v[ap[2]] = None)

C6_Witness ==
    /\ Requested
    /\ call.op = "airline_flight_schedules"
    /\ call.args["start_date"] = None
    /\ call.args["origin"] = None
    /\ call.args["destination"] = None
    /\ call.args["airline"] = None
    /\ call.args["flight_number"] = None
    /\ request.data.v["startDate"] = None
    /\ request.data.v["flightno"] = None

C6_WitnessFilter ==
    /\ Requested
    /\ call.op = "arrived"
    /\ call.args["filter"] = TrafficFilter_ALL
    /\ request.data.v["filter"] = None

\* C7 as stated: when the unwrapped result of a well-formed JSON response is
\* an error string or an error object, the operation returns that value as it
\* is and raises no error of its own, airline_flight_schedules included.
C7_RemoteErrorPassedThrough ==
    (Requested /\ response.status = 200
       /\ RequestOutcome(RequestedMethod, response)
            \in {Return(ErrorString), Return(PyDict("error" :> PyStr("INVALID_ARGUMENT")))})
    => outcome = RequestOutcome(RequestedMethod, response)

\* C8 as stated: an authentication rejection ends the call in a failure, and
\* in a failure other than those of a transport failure and of a non-JSON body.
C8_AuthRejectionIsItsOwnFailure ==
    (Requested /\ response.status = 401)
    => (outcome.kind = "raise" /\ outcome.exc \notin {"ConnectionError", "ValueError"})

\* C9: the requests sent are as many as the _request calls made (none before
\* the first call), and a call whose request failed in the transport or whose
\* answer is not JSON raises that failure and returns no value; so does a call
\* whose url requests.post refused.
C9_OneRequestPerInvokeNoneSwallowed ==
    /\ posts = invokes
    /\ (ncalls = 0 => posts = 0)
    /\ (Requested /\ response.status = 0)
       => (outcome.kind = "raise" /\ outcome.exc = "ConnectionError"
           /\ outcome.value = NoValue)
    /\ (Requested /\ response.status # 0 /\ response.body = NotJson)
       => (outcome.kind = "raise" /\ outcome.exc = "ValueError" /\ outcome.value = NoValue)
    /\ (Requested /\ response = NoResponse)
       => (outcome.kind = "raise" /\ outcome.exc = "ValueError" /\ outcome.value = NoValue)

\* requests.post refused a url without a scheme: its error reaches the caller
C9_WitnessNoScheme ==
    /\ Requested
    /\ request.url = "/Bar"
    /\ posts = invokes
    /\ response = NoResponse
    /\ outcome = Raise("ValueError")

C9_Witness ==
    /\ Requested
    /\ ncalls = MaxCalls
    /\ posts = MaxCalls
    /\ response.status = 0
    /\ outcome = Raise("ConnectionError")

C9_WitnessNotJson ==
    /\ Requested
    /\ posts = 1
    /\ response = HttpResponse(200, NotJson)
    /\ outcome = Raise("ValueError")

\* the unwrapped result of the last request is a list of records that all
\* have integer fields departuretime and arrivaltime
ScheduleRecords ==
    /\ Requested
    /\ call.op = "airline_flight_schedules"
    /\ response.status # 0
    /\ response.body # NotJson
    /\ LET r == RequestOutcome("AirlineFlightSchedules", response) IN
       /\ r.kind = "return"
       /\ r.value.t = "list"
       /\ \A i \in 1..Len(r.value.v) :
            /\ r.value.v[i].t = "dict"
            /\ {"departuretime", "arrivaltime"} \subseteq DOMAIN r.value.v[i].v
            /\ r.value.v[i].v["departuretime"].t \in {"int", "long"}
            /\ r.value.v[i].v["arrivaltime"].t \in {"int", "long"}

\* C10: airline_flight_schedules returns the records of the unwrapped result
\* in their order, each with departure_time and arrival_time added as the
\* local datetimes of departuretime and arrivaltime and every other field
\* kept; where from_unix_timestamp has no datetime for one of the integers, the
\* call ends with its ValueError.
C10_SchedulesGainLocalTimes ==
    ScheduleRecords
    => LET raw == RequestOutcome("AirlineFlightSchedules", response).value.v
           Wire(val) == IF val.t = "long"
                        THEN Instant(val.v.sign * val.v.days, val.v.sign * val.v.seconds)
                        ELSE Instant(0, val.v)
           Local(t) == DateTimeAt(t.days, t.seconds, 0)
       IN
       IF \A i \in 1..Len(raw) :
            /\ from_unix_timestamp(raw[i].v["departuretime"]).kind = "return"
            /\ from_unix_timestamp(raw[i].v["arrivaltime"]).kind = "return"
       THEN
       /\ outcome.kind = "return"
       /\ outcome.value.t = "list"
       /\ Len(outcome.value.v) = Len(raw)
       /\ \A i \in 1..Len(raw) :
            LET old == raw[i].v
                new == outcome.value.v[i].v
            IN  /\ outcome.value.v[i].t = "dict"
                /\ DOMAIN new = DOMAIN old \cup {"departure_time", "arrival_time"}
                /\ new["departure_time"] = from_unix_timestamp(old["departuretime"]).value
                /\ new["arrival_time"] = from_unix_timestamp(old["arrivaltime"]).value
                /\ new["departure_time"] = Local(LocalTime(tz, Wire(old["departuretime"])))
                /\ new["arrival_time"] = Local(LocalTime(tz, Wire(old["arrivaltime"])))
                /\ \A f \in DOMAIN old \ {"departure_time", "arrival_time"} :
                     new[f] = old[f]
       ELSE outcome = Raise("ValueError")

C10_Witness ==
    /\ ScheduleRecords
    /\ tz = EST5EDT
    /\ outcome.kind = "return"
    /\ Len(outcome.value.v) = 2
    /\ outcome.value.v[1].v["ident"] = PyStr("QFA2")
    /\ outcome.value.v[1].v["departure_time"] = DateTime(-7200 - 18000, 0)
    /\ outcome.value.v[2].v["arrival_time"] = DateTime(3600 - 18000, 0)

\* integers of more than 32 bits: in the zone five hours west, 2100-01-01
\* UTC is shown as 2099-12-31T19:00:00
C10_WitnessFar ==
    /\ ScheduleRecords
    /\ tz = EST5EDT
    /\ outcome.kind = "return"
    /\ Len(outcome.value.v) = 1
    /\ "ident" \notin DOMAIN outcome.value.v[1].v
    /\ outcome.value.v[1].v["departuretime"] = PyLong(1, 47482, 0)
    /\ outcome.value.v[1].v["departure_time"] = DateTimeAt(47481, 68400, 0)
    /\ outcome.value.v[1].v["arrival_time"] = DateTimeAt(24854, 80047, 0)

\* the same integer where the zone brings it back into the year 9999
C10_WitnessBroughtBack ==
    /\ ScheduleRecords
    /\ tz = EST5EDT
    /\ outcome.kind = "return"
    /\ Len(outcome.value.v) = 2
    /\ outcome.value.v[2].v["arrivaltime"] = PyLong(1, MaxDays + 1, 0)
    /\ outcome.value.v[2].v["arrival_time"] = DateTimeAt(MaxDays, 68400, 0)

\* an integer past the year 9999 where the zone does not bring it back
C10_WitnessBeyond ==
    /\ ScheduleRecords
    /\ tz = FixedZone(0)
    /\ response.body.v["AirlineFlightSchedulesResult"].t = "list"
    /\ response.body.v["AirlineFlightSchedulesResult"].v[2].v["arrivaltime"]
         = PyLong(1, MaxDays + 1, 0)
    /\ outcome = Raise("ValueError")

\* the items of the mapping the last search call ran over
SearchItems ==
    IF call.args["parameters"] = Omitted
    THEN default_parameters.v
    ELSE call.args["parameters"].v

\* "-" + key + " " + value + " " for each entry of items, first entry first
RECURSIVE DashedEntries(_)
DashedEntries(items) ==
    IF items = <<>>
    THEN ""
    ELSE ("-" \o Str(Head(items)[1]) \o " " \o Str(Head(items)[2]) \o " ")
         \o DashedEntries(Tail(items))

\* C11: a search request goes to Search with exactly the parameters query,
\* howMany and offset; query is the concatenation, in the mapping's order, of
\* "-" + key + " " + value + " " per entry, the empty string for an empty
\* mapping; howMany and offset are the arguments.
C11_SearchQuery ==
    (call.op = "search" /\ Requested)
    => /\ RequestedMethod = "Search"
       /\ DOMAIN request.data.v = {"query", "howMany", "offset"}
       /\ request.data.v["query"] = PyStr(DashedEntries(SearchItems))
       /\ (SearchItems = <<>> => request.data.v["query"] = PyStr(""))
       /\ request.data.v["howMany"] = call.args["how_many"]
       /\ request.data.v["offset"] = call.args["offset"]

C11_Witness ==
    /\ call.op = "search" /\ Requested
    /\ call.args["parameters"] = OrderedDict(<<FilterType, FilterBelowAltitude>>)
    /\ request.data.v["query"] = PyStr("-type B77* -belowAltitude 100 ")
    /\ request.data.v["offset"] = PyInt(15)

C11_WitnessOtherOrder ==
    /\ call.op = "search" /\ Requested
    /\ call.args["parameters"] = OrderedDict(<<FilterBelowAltitude, FilterType>>)
    /\ request.data.v["query"] = PyStr("-belowAltitude 100 -type B77* ")

\* the datetime o seconds after d
Shifted(d, o) ==
    DateTimeAt(d.v.days + (d.v.seconds + o) \div SecondsPerDay,
               (d.v.seconds + o) % SecondsPerDay, d.v.microseconds)

\* the instant that the naive datetime d names when read as UTC
InstantOf(d) == Instant(d.v.days, d.v.seconds)

\* the local UTC offset at the instant of d
OffsetAt(d) == UtcOffset(tz, InstantOf(d))

\* the last call was a round trip of a datetime of whole seconds
RoundTripOfWholeSeconds ==
    /\ call.op = "round_trip"
    /\ call.args["val"].t = "datetime"
    /\ call.args["val"].v.microseconds = 0

\* C12 as stated: for every datetime d of whole seconds and the local UTC
\* offset o, from_unix_timestamp(to_unix_timestamp(d)) is d shifted by o: it
\* is d when o is 0 and differs from d when o is not 0.
C12_RoundTripShiftsByOffset ==
    RoundTripOfWholeSeconds
    => /\ outcome = Return(Shifted(call.args["val"], OffsetAt(call.args["val"])))
       /\ (OffsetAt(call.args["val"]) = 0 <=> outcome = Return(call.args["val"]))

\* C12 amended: the round trip gives d shifted by the local offset o at the
\* instant of d (d itself exactly when o is 0) for every d of whole seconds
\* whose shifted value, and the local time a day before it, lie in the years
\* 1 to 9999; for any other d it raises ValueError.
C12_RoundTripShiftsWithinYears ==
    RoundTripOfWholeSeconds
    => IF /\ InYears(LocalTime(tz, InstantOf(call.args["val"])))
          /\ InYears(LocalTime(tz, Instant(call.args["val"].v.days - 1,
                                           call.args["val"].v.seconds)))
       THEN /\ outcome = Return(Shifted(call.args["val"], OffsetAt(call.args["val"])))
            /\ (OffsetAt(call.args["val"]) = 0 <=> outcome = Return(call.args["val"]))
       ELSE outcome = Raise("ValueError")

C12_Witness ==
    /\ call.op = "round_trip"
    /\ call.args["val"] = DateTime(3600, 0)
    /\ tz = EST5EDT
    /\ outcome = Return(DateTime(-14400, 0))

C12_WitnessNoOffset ==
    /\ call.op = "round_trip"
    /\ call.args["val"] = DateTimeAt(198841, 6784, 0)
    /\ tz = FixedZone(0)
    /\ outcome = Return(call.args["val"])

\* daylight time is in force on 2017-07-14: the offset is -14400
C12_WitnessDaylightTime ==
    /\ call.op = "round_trip"
    /\ call.args["val"] = DateTime(1500000000, 0)
    /\ tz = EST5EDT
    /\ outcome = Return(DateTime(1500000000 - 14400, 0))

\* 0001-01-01T00:00:00 at offset 0
C12_WitnessFirstDay ==
    /\ call.op = "round_trip"
    /\ call.args["val"] = DateTimeAt(MinDays, 0, 0)
    /\ tz = FixedZone(0)
    /\ outcome = Raise("ValueError")

\* the whole seconds of |td| with the fraction dropped, signed as td
TruncatedSeconds(td) ==
    LET abs == AbsDelta(td) IN
    PyIntOfSeconds(IF td.days < 0 THEN -1 ELSE 1, abs.days, abs.seconds)

\* C15 as stated: for every datetime d, to_unix_timestamp(d) is the signed
\* number of seconds from EPOCH to d truncated toward zero; for EPOCH it is
\* the integer 0.
C15_TruncatedTowardZero ==
    (call.op = "to_unix_timestamp" /\ call.args["val"].t = "datetime")
    => /\ outcome = Return(TruncatedSeconds(DateTimeSub(call.args["val"], EPOCH)))
       /\ (call.args["val"] = EPOCH => outcome = Return(PyInt(0)))

\* C15 within 2^34 seconds of EPOCH (the years 1426 to 2513 are inside),
\* where the double holds every microsecond apart: the result is the signed
\* number of seconds truncated toward zero, and 0 for EPOCH itself.
C15_TruncatedNearEpoch ==
    (call.op = "to_unix_timestamp" /\ call.args["val"].t = "datetime"
       /\ Binade(AbsDelta(DateTimeSub(call.args["val"], EPOCH))) < 34)
    => /\ outcome = Return(TruncatedSeconds(DateTimeSub(call.args["val"], EPOCH)))
       /\ (call.args["val"] = EPOCH => outcome = Return(PyInt(0)))

C15_WitnessBeforeEpoch ==
    /\ call.op = "to_unix_timestamp"
    /\ call.args["val"] = DateTime(-2, 500000)
    /\ outcome = Return(PyInt(-1))

C15_WitnessEpoch ==
    /\ call.op = "to_unix_timestamp"
    /\ call.args["val"] = EPOCH
    /\ outcome = Return(PyInt(0))

C15_WitnessRoundedUp ==
    /\ call.op = "to_unix_timestamp"
    /\ call.args["val"] = DateTimeAt(198841, 6784, 999999)
    /\ outcome = Return(PyLong(1, 198841, 6785))

\* C13: in every interleaving of _request calls that run in parallel on one
\* client, each call hands requests.post its own method and data, and ends
\* as it would when run alone with the response the transport gave it.
C13_ThreadsDoNotInterfere ==
    \A t \in Threads :
      LET alone == _request(threads[t].asked.method, threads[t].asked.data,
                            threads[t].answered)
      IN  /\ threads[t].pc \in {"wait", "answered", "done"}
             => threads[t].sent = alone.request
          /\ threads[t].pc = "done" => threads[t].result = alone.outcome

\* two calls for different methods were in flight together and both ended
\* with their own unwrapped value
C13_Witness ==
    /\ threads[1].pc = "done" /\ threads[2].pc = "done"
    /\ threads[1].asked.method = "Foo" /\ threads[2].asked.method = "Bar"
    /\ threads[1].result = Return(IntList)
    /\ threads[2].result = Return(ErrorString)
    /\ posts = 2

\* one call has its answer while the other is inside requests.post
C13_WitnessOverlap ==
    /\ threads[1].pc = "wait" /\ threads[2].pc = "answered"
    /\ threads[1].asked.method # threads[2].asked.method
    /\ threads[1].asked.data # threads[2].asked.data

\* C14: no operation, successful or failed, changes the stored username,
\* API key or headers, and every request it makes carries exactly the stored
\* credentials and the one header Content-Type:
\* application/x-www-form-urlencoded.
C14_CredentialsAndHeadersFixed ==
    [][ /\ auth' = auth
        /\ headers' = headers
        /\ headers' = ("Content-Type" :> "application/x-www-form-urlencoded")
        /\ request' # NoRequest
           => /\ request'.auth = auth
              /\ request'.headers = ("Content-Type" :> "application/x-www-form-urlencoded")
      ]_vars

\* a second call that failed after its request went out with the credentials
\* of the construction
C14_Witness ==
    /\ ncalls = MaxCalls /\ posts = MaxCalls
    /\ Requested
    /\ outcome.kind = "raise"
    /\ auth = [username |-> "alice", password |-> "k2"]
    /\ request.auth = auth
    /\ request.headers = headers

\* a call for a method name that begins with "/": requests.post is called
\* with the bare name as url and with the credentials and the header all the
\* same, and raises before asking the transport
C14_WitnessBareName ==
    /\ Requested
    /\ response = NoResponse
    /\ outcome = Raise("ValueError")
    /\ call.op = "_request"
    /\ call.args["method"] = PyStr("/Bar")
    /\ request.url = "/Bar"
    /\ request.auth = auth
    /\ request.headers = headers

\* C16: delete_alert requests DeleteAlert with the parameter alert_id when,
\* and only when, its argument is not None (0 is sent); with None it makes no
\* request, raises nothing and returns None.
C16_DeleteAlertOnlyWithIdentifier ==
    call.op = "delete_alert"
    => IF call.args["alert_id"] # None
       THEN /\ Requested
            /\ RequestedMethod = "DeleteAlert"
            /\ request.data = PyDict("alert_id" :> call.args["alert_id"])
            /\ outcome = RequestOutcome("DeleteAlert", response)
       ELSE /\ ~Requested
            /\ outcome = Return(None)

C16_Witness ==
    /\ call.op = "delete_alert"
    /\ call.args["alert_id"] = PyInt(0)
    /\ request.data = PyDict("alert_id" :> PyInt(0))
    /\ outcome.kind = "return"

C16_WitnessAbsent ==
    /\ call.op = "delete_alert"
    /\ call.args["alert_id"] = None
    /\ ncalls = MaxCalls /\ posts = MaxCalls - 1
    /\ outcome = Return(None)

\* C17 as stated: the data of a set_alert request holds alert_id and
\* max_weekly; it holds ident, origin, destination, aircrafttype, date_start,
\* date_end and enabled exactly when the argument is not None, and channels
\* exactly when the list is not empty; no parameter is None.
C17_OnlyPresentArgumentsSent ==
    (call.op = "set_alert" /\ Requested)
    => /\ {"alert_id", "max_weekly"} \subseteq DOMAIN request.data.v
       /\ \A k \in {"ident", "origin", "destination", "aircrafttype", "date_start",
                    "date_end", "enabled"} :
            k \in DOMAIN request.data.v <=> call.args[k] # None
       /\ "channels" \in DOMAIN request.data.v
            <=> PyLen(IF call.args["channels"] = Omitted
                      THEN default_channels ELSE call.args["channels"]) > 0
       /\ \A k \in DOMAIN request.data.v : request.data.v[k] # None

\* set_alert(enabled=None) sends enabled with the value None
C17_WitnessEnabledNone ==
    /\ call.op = "set_alert" /\ Requested
    /\ call.args["enabled"] = None
    /\ request.data.v["enabled"] = None

\* C19: the default containers stay empty and are in no request: a set_alert
\* call without channels sends no channels parameter and a search call without
\* parameters sends the empty query, whatever was called before.
C19_DefaultContainersUntouched ==
    /\ default_channels = PyList(<<>>)
    /\ default_parameters = OrderedDict(<<>>)
    /\ (call.op = "set_alert" /\ call.args["channels"] = Omitted)
       => (Requested /\ "channels" \notin DOMAIN request.data.v)
    /\ (call.op = "search" /\ call.args["parameters"] = Omitted)
       => (Requested /\ request.data.v["query"] = PyStr(""))

\* a later set_alert call without channels
C19_Witness ==
    /\ ncalls = MaxCalls /\ posts = MaxCalls
    /\ call.op = "set_alert" /\ call.args["channels"] = Omitted
    /\ "channels" \notin DOMAIN request.data.v

\* a later search call without parameters
C19_WitnessSearch ==
    /\ ncalls = MaxCalls /\ posts = MaxCalls
    /\ call.op = "search" /\ call.args["parameters"] = Omitted
    /\ request.data.v["query"] = PyStr("")

\* the operations of the client that make a request
ImplementedOps ==
    { "aircraft_type", "airline_flight_info", "airline_flight_schedules",
      "airline_info", "airline_insight", "airport_info", "all_airlines",
      "all_airports", "block_indent_check", "count_airport_operations",
      "count_all_enroute_airline_operations", "decode_flight_route", "arrived",
      "departed", "enroute", "get_flight_id", "get_last_track", "in_flight_info",
      "metar", "metar_ex", "ntaf", "taf", "routes_between_airports", "scheduled",
      "search", "tail_owner", "zipcode_info", "get_alerts", "delete_alert",
      "set_alert", "register_alert_endpoint" }

\* the remote method an operation is named after: the words of its name with
\* capitals and without underscores (FlightXML2 writes ID, NTaf and, for
\* block_indent_check, BlockIdentCheck)
NamedAfter(op) ==
    CASE op = "aircraft_type" -> "AircraftType"
      [] op = "airline_flight_info" -> "AirlineFlightInfo"
      [] op = "airline_flight_schedules" -> "AirlineFlightSchedules"
      [] op = "airline_info" -> "AirlineInfo"
      [] op = "airline_insight" -> "AirlineInsight"
      [] op = "airport_info" -> "AirportInfo"
      [] op = "all_airlines" -> "AllAirlines"
      [] op = "all_airports" -> "AllAirports"
      [] op = "block_indent_check" -> "BlockIdentCheck"
      [] op = "count_airport_operations" -> "CountAirportOperations"
      [] op = "count_all_enroute_airline_operations" -> "CountAllEnrouteAirlineOperations"
      [] op = "decode_flight_route" -> "DecodeFlightRoute"
      [] op = "arrived" -> "Arrived"
      [] op = "departed" -> "Departed"
      [] op = "enroute" -> "Enroute"
      [] op = "get_flight_id" -> "GetFlightID"
      [] op = "get_last_track" -> "GetLastTrack"
      [] op = "in_flight_info" -> "InFlightInfo"
      [] op = "metar" -> "Metar"
      [] op = "metar_ex" -> "MetarEx"
      [] op = "ntaf" -> "NTaf"
      [] op = "taf" -> "Taf"
      [] op = "routes_between_airports" -> "RoutesBetweenAirports"
      [] op = "scheduled" -> "Scheduled"
      [] op = "search" -> "Search"
      [] op = "tail_owner" -> "TailOwner"
      [] op = "zipcode_info" -> "ZipcodeInfo"
      [] op = "get_alerts" -> "GetAlerts"
      [] op = "delete_alert" -> "DeleteAlert"
      [] op = "set_alert" -> "SetAlert"
      [] op = "register_alert_endpoint" -> "RegisterAlertEndpoint"

\* C18 as stated: every request of an operation goes to the remote method the
\* operation is named after (taf to Taf, ntaf to NTaf), and two different
\* operations called one after the other send their requests to different
\* remote methods.
C18_OneRemoteMethodPerOperation ==
    [][ (request' # NoRequest /\ call'.op \in ImplementedOps)
        => /\ request'.url = BASE_URL \o NamedAfter(call'.op)
           /\ (Requested /\ call.op \in ImplementedOps /\ call.op # call'.op)
              => request'.url # request.url ]_vars

\* taf after ntaf: both requests went to NTaf
C18_WitnessTaf ==
    /\ call.op = "taf" /\ Requested
    /\ ncalls = MaxCalls
    /\ request.url = BASE_URL \o "NTaf"

Next ==
    \/ invoke
    \/ aircraft_type
    \/ airline_flight_info
    \/ airline_info
    \/ airline_insight
    \/ airport_info
    \/ all_airlines
    \/ all_airports
    \/ block_indent_check
    \/ count_airport_operations
    \/ count_all_enroute_airline_operations
    \/ decode_flight_route
    \/ get_last_track
    \/ in_flight_info
    \/ metar
    \/ metar_ex
    \/ ntaf
    \/ taf
    \/ routes_between_airports
    \/ tail_owner
    \/ zipcode_info
    \/ get_alerts
    \/ register_alert_endpoint
    \/ arrived
    \/ departed
    \/ enroute
    \/ scheduled
    \/ get_flight_id
    \/ airline_flight_schedules
    \/ search
    \/ delete_alert
    \/ set_alert
    \/ decode_route
    \/ fleet_arrived
    \/ fleet_scheduled
    \/ flight_info
    \/ flight_info_ex
    \/ get_historical_track
    \/ inbound_flight_info
    \/ lat_lng_to_distance
    \/ lat_lng_to_heading
    \/ map_flight
    \/ map_flight_ex
    \/ routes_between_airports_ex
    \/ search_birdseye_in_flight
    \/ search_birdseye_positions
    \/ search_count
    \/ set_maximum_result_sizes

Spec == Init /\ [][Next]_vars

\* the converters alone
NextConverters ==
    \/ call_to_unix_timestamp
    \/ call_from_unix_timestamp
    \/ round_trip

SpecConverters == Init /\ [][NextConverters]_vars

\* _request calls in parallel threads
NextThreads ==
    \/ thread_call
    \/ thread_post
    \/ thread_answer
    \/ thread_return

SpecThreads == Init /\ [][NextThreads]_vars

====
